---- MODULE Spec2Model ----
(***************************************************************************)
(* RT5670 voice-DSP control path (sound/soc/codecs/rt5670-dsp.c).          *)
(*                                                                         *)
(* The driver reaches the DSP through three codec registers (address,      *)
(* data, command/status) and polls the command/status register until the   *)
(* busy flag clears.  The model steps the driver one bus operation at a    *)
(* time; the bus and the DSP are the environment.                          *)
(***************************************************************************)
EXTENDS Integers, Sequences, FiniteSets

VARIABLES
    rt5670_dsp_fw,  \* the stored firmware image (NULL or the name of an image)
    stack,          \* call stack of the driver, innermost frame first
    ret,            \* value returned by the call that finished last
    log,            \* bus operations of the current top-level call, in order
    cur,            \* the current (or last finished) top-level call, with the
                    \* firmware image and the mode stored when it started
    prev,           \* <<addr, data>> of the call before it when that was a
                    \* successful rt5670_dsp_write, <<>> otherwise
    hw,             \* codec registers and the DSP behind them
    env,            \* what the environment may still do: bus failures, deliveries
    fwreads,        \* byte indexes of the image read by the current call
    dsp_sw,         \* rt5670->dsp_sw, the mode the control asked for
    other           \* the context (stack, ret, log, cur, prev, fwreads) of a
                    \* second thread of callers while it is not running

vars == <<rt5670_dsp_fw, stack, ret, log, cur, prev, hw, env, fwreads, dsp_sw, other>>

----------------------------------------------------------------------------
(* Bounds of the model *)

MaxFail  == 1       \* bus transfers that fail over one behaviour
MaxLoads == 2       \* firmware-loaded notifications over one behaviour
MaxCalls == 2       \* top-level calls into the driver over one behaviour

----------------------------------------------------------------------------
(* Constants of the program *)

EBUSY  == 16
EINVAL == 22
BusErr == -5        \* the negative errno a failed bus transfer returns (-EIO)
PollLimit == 10     \* "count > 10"
EntrySize == 5      \* "tab_num * 5"
DirSlot == 3        \* "mode * 3"
SubRegHi == 38      \* 0x26
SubRegLo == 37      \* 0x25

DSP_CTRL1 == "RT5670_DSP_CTRL1"     \* command / status register
DSP_CTRL2 == "RT5670_DSP_CTRL2"     \* address register
DSP_CTRL3 == "RT5670_DSP_CTRL3"     \* data register
DSP_CTRL5 == "RT5670_DSP_CTRL5"     \* data readback register

\* A command word is the OR of flag constants: the set of the flags OR-ed.
CmdMemWrite == {"RT5670_DSP_I2C_AL_16", "RT5670_DSP_DL_2", "RT5670_DSP_CMD_MW",
                "DSP_CLK_RATE", "RT5670_DSP_CMD_EN"}
CmdMemRead  == {"RT5670_DSP_I2C_AL_16", "RT5670_DSP_DL_0", "RT5670_DSP_RW_MASK",
                "RT5670_DSP_CMD_MR", "DSP_CLK_RATE", "RT5670_DSP_CMD_EN"}
CmdRegRead  == {"RT5670_DSP_DL_1", "RT5670_DSP_CMD_RR", "RT5670_DSP_RW_MASK",
                "DSP_CLK_RATE", "RT5670_DSP_CMD_EN"}
NoCmd == {}

\* int -> unsigned int, as the two 16-bit halves of the 32-bit word
ToU32(x) == [hi |-> (x \div 65536) % 65536, lo |-> x % 65536]

----------------------------------------------------------------------------
(* Inputs *)

PwrDownReg == 8953                  \* 0x22f9
OtherReg   == PwrDownReg + 8        \* another DSP register, 0x2301
Addrs  == {PwrDownReg, OtherReg}
Values == {1, 4660}                 \* 0x0001, 0x1234

NULL == "NULL"

Entry(addr, data) == <<addr \div 256, addr % 256, data \div 256, data % 256, 0>>

\* n = 2; mode 0 at 10 with 2 entries, mode 1 at 20 with 1 entry, mode 2 (= n)
\* at 15 with 2 entries; 25 bytes.
FwGood == <<2, 0, 10, 2, 0, 20, 1, 0, 15, 2>>
            \o Entry(PwrDownReg, 4660) \o Entry(OtherReg, 1) \o Entry(PwrDownReg, 1)
\* n = 1; mode 0 at 7 with 1 entry (fits exactly), mode 1 at 7 with 2 entries
\* (17 > 12: past the end); 12 bytes.
FwCorrupt == <<1, 0, 7, 1, 0, 7, 2>> \o Entry(OtherReg, 4660)
\* n = 0; mode 0 at 0x0105 = 261 with 1 entry; 266 bytes.
FwBig == <<0, 1, 5, 1>> \o [i \in 1..257 |-> 0] \o Entry(OtherReg, 4660)
\* shorter than its own directory; 2 bytes.
FwShort == <<1, 0>>

FwNames == {"good", "corrupt", "big", "short"}
FwData(name) ==
    CASE name = "good"    -> FwGood
      [] name = "corrupt" -> FwCorrupt
      [] name = "big"     -> FwBig
      [] name = "short"   -> FwShort

ModeArgs == {-1, 0, 1, 2, 3}
OobBytes == {0, 10}         \* what a read outside the image may yield

----------------------------------------------------------------------------
(* The bus and the DSP behind the three registers *)

HiByte(v) == (v \div 256) % 256
LoByte(v) == v % 256

\* The DSP executes a command when the command register is written: memory
\* write stores the data register at the address register; memory read
\* latches the addressed word; register read of sub-register 0x26 / 0x25
\* moves the high / low byte of the latch into the readback register.
DspExec(h, cmd) ==
    IF "RT5670_DSP_CMD_MW" \in cmd THEN
        IF h.ctrl2 \in Addrs THEN [h EXCEPT !.mem[h.ctrl2] = h.ctrl3] ELSE h
    ELSE IF "RT5670_DSP_CMD_MR" \in cmd THEN
        [h EXCEPT !.latch = IF h.ctrl2 \in Addrs THEN h.mem[h.ctrl2] ELSE 0]
    ELSE IF "RT5670_DSP_CMD_RR" \in cmd THEN
        IF h.ctrl2 = SubRegHi
        THEN [h EXCEPT !.ctrl5 = HiByte(h.latch) * 256 + LoByte(h.ctrl5)]
        ELSE IF h.ctrl2 = SubRegLo
        THEN [h EXCEPT !.ctrl5 = HiByte(h.ctrl5) * 256 + LoByte(h.latch)]
        ELSE h
    ELSE h

\* snd_soc_write that reached the device
HwWrite(h, reg, val, cmd) ==
    IF reg = DSP_CTRL2 THEN [h EXCEPT !.ctrl2 = val]
    ELSE IF reg = DSP_CTRL3 THEN [h EXCEPT !.ctrl3 = val]
    ELSE IF reg = DSP_CTRL1 THEN DspExec(h, cmd)
    ELSE h

LogW(reg, val, cmd, ok) == [k |-> "w", reg |-> reg, val |-> val, cmd |-> cmd, ok |-> ok]
LogR(reg, val, ok)      == [k |-> "r", reg |-> reg, val |-> val, cmd |-> NoCmd, ok |-> ok]
LogPoll(busy, ok)       == [k |-> "poll", reg |-> DSP_CTRL1, val |-> busy, cmd |-> NoCmd, ok |-> ok]

\* One snd_soc_write: it reaches the device (ok) or fails and changes nothing.
BusWrite(reg, val, cmd, ok) ==
    /\ ok \/ env.fail > 0
    /\ log' = Append(log, LogW(reg, val, cmd, ok))
    /\ hw' = IF ok THEN HwWrite(hw, reg, val, cmd) ELSE hw
    /\ env' = IF ok THEN env ELSE [env EXCEPT !.fail = @ - 1]

----------------------------------------------------------------------------
(* Call stack *)

Frame(fn, pc, a, d, c) == [fn |-> fn, pc |-> pc, a |-> a, d |-> d, c |-> c]

Idle == stack = <<>>
Top  == Head(stack)
At(fn, pc) == ~Idle /\ Top.fn = fn /\ Top.pc = pc

Goto(pc)     == stack' = <<[Top EXCEPT !.pc = pc]>> \o Tail(stack)
Return(v)    == stack' = Tail(stack) /\ ret' = v
\* move the caller to pc and enter rt5670_dsp_done
CallDone(pc) == stack' = <<Frame("done", "l38", 0, 0, 0), [Top EXCEPT !.pc = pc]>> \o Tail(stack)

----------------------------------------------------------------------------
(* rt5670_dsp_done: frame fields d = busy bit of dsp_val, c = count;
   a counts the reads that returned the busy flag set *)

BusyBit(v) == v                                 \* dsp_val & RT5670_DSP_BUSY_MASK, 0 or 1
DoneGiveUp_early(count) == count >= PollLimit   \* gives up one re-read early
DoneGiveUp_late(count) == count > PollLimit + 1 \* gives up one re-read late
DoneGiveUp(count) == count > PollLimit          \* "if (count > 10)"

\* One snd_soc_read of the command/status register.  A failed read returns an
\* error code in place of the register value; its busy bit is either.
StatusRead(v, ok) ==
    /\ v \in {0, 1} /\ ok \in BOOLEAN
    /\ ok \/ env.fail > 0
    /\ env' = IF ok THEN env ELSE [env EXCEPT !.fail = @ - 1]
    /\ hw' = hw

\* dsp_val = snd_soc_read(codec, RT5670_DSP_CTRL1);
dsp_done_read ==
    /\ At("done", "l38")
    /\ \E v \in {0, 1}, ok \in BOOLEAN :
        /\ StatusRead(v, ok)
        /\ log' = Append(log, LogPoll(BusyBit(v), ok))
        /\ stack' = <<[Top EXCEPT !.pc = "l39", !.d = v, !.c = 0, !.a = BusyBit(v)]>> \o Tail(stack)
    /\ UNCHANGED <<rt5670_dsp_fw, dsp_sw, other, ret, cur, prev, fwreads>>

\* while (busy) { if (count > 10) ...; dsp_val = snd_soc_read(...); count++; }
dsp_done_poll ==
    /\ At("done", "l39")
    /\ BusyBit(Top.d) = 1
    /\ ~DoneGiveUp(Top.c)
    /\ \E v \in {0, 1}, ok \in BOOLEAN :
        /\ StatusRead(v, ok)
        /\ log' = [log EXCEPT ![Len(log)] = LogPoll(BusyBit(v), @.ok /\ ok)]
        /\ stack' = <<[Top EXCEPT !.d = v, !.c = @ + 1, !.a = @ + BusyBit(v)]>> \o Tail(stack)
    /\ UNCHANGED <<rt5670_dsp_fw, dsp_sw, other, ret, cur, prev, fwreads>>

\* return -EBUSY;
dsp_done_busy ==
    /\ At("done", "l39")
    /\ BusyBit(Top.d) = 1
    /\ DoneGiveUp(Top.c)
    /\ Return(-EBUSY)
    /\ UNCHANGED <<rt5670_dsp_fw, dsp_sw, other, log, cur, prev, hw, env, fwreads>>

\* return 0;
dsp_done_ready ==
    /\ At("done", "l39")
    /\ BusyBit(Top.d) = 0
    /\ Return(0)
    /\ UNCHANGED <<rt5670_dsp_fw, dsp_sw, other, log, cur, prev, hw, env, fwreads>>

----------------------------------------------------------------------------
(* rt5670_dsp_write: frame fields a = addr, d = data *)

\* ret = snd_soc_write(codec, RT5670_DSP_CTRL2, addr);
dsp_write_addr ==
    /\ At("write", "l66")
    /\ \E ok \in BOOLEAN :
        /\ BusWrite(DSP_CTRL2, Top.a, NoCmd, ok)
        /\ IF ok THEN Goto("l71") /\ ret' = ret ELSE Return(BusErr)
    /\ UNCHANGED <<rt5670_dsp_fw, dsp_sw, other, cur, prev, fwreads>>

\* the data write with its error ignored
dsp_write_data_unchecked ==
    /\ At("write", "l71")
    /\ \E ok \in BOOLEAN :
        /\ BusWrite(DSP_CTRL3, Top.d, NoCmd, ok)
        /\ Goto("l79") /\ ret' = ret
    /\ UNCHANGED <<rt5670_dsp_fw, dsp_sw, other, cur, prev, fwreads>>

\* ret = snd_soc_write(codec, RT5670_DSP_CTRL3, data);
dsp_write_data ==
    /\ At("write", "l71")
    /\ \E ok \in BOOLEAN :
        /\ BusWrite(DSP_CTRL3, Top.d, NoCmd, ok)
        /\ IF ok THEN Goto("l79") /\ ret' = ret ELSE Return(BusErr)
    /\ UNCHANGED <<rt5670_dsp_fw, dsp_sw, other, cur, prev, fwreads>>

\* ret = snd_soc_write(codec, RT5670_DSP_CTRL1, dsp_val); ret = rt5670_dsp_done(codec);
dsp_write_cmd ==
    /\ At("write", "l79")
    /\ \E ok \in BOOLEAN :
        /\ BusWrite(DSP_CTRL1, 0, CmdMemWrite, ok)
        /\ IF ok THEN CallDone("l85") /\ ret' = ret ELSE Return(BusErr)
    /\ UNCHANGED <<rt5670_dsp_fw, dsp_sw, other, cur, prev, fwreads>>

\* if (ret < 0) goto err; return 0; err: return ret;
dsp_write_ret ==
    /\ At("write", "l85")
    /\ Return(IF ret < 0 THEN ret ELSE 0)
    /\ UNCHANGED <<rt5670_dsp_fw, dsp_sw, other, log, cur, prev, hw, env, fwreads>>
----------------------------------------------------------------------------
(* rt5670_dsp_read: frame field a = reg.  The function returns unsigned int,
   so "return ret" on the error path returns the errno converted. *)

\* the same without "if (ret < 0) goto err;" after rt5670_dsp_done
ReadWrite_unchecked(pc, reg, val, cmd, next, wait) ==
    /\ At("read", pc)
    /\ \E ok \in BOOLEAN :
        /\ BusWrite(reg, val, cmd, ok)
        /\ IF ~ok THEN Return(ToU32(BusErr))
           ELSE IF wait THEN CallDone(next) /\ ret' = ret
           ELSE Goto(next) /\ ret' = ret
    /\ UNCHANGED <<rt5670_dsp_fw, dsp_sw, other, cur, prev, fwreads>>

\* after a rt5670_dsp_done: "if (ret < 0) goto err;", else the next snd_soc_write
ReadWrite(pc, reg, val, cmd, next, wait) ==
    /\ At("read", pc)
    /\ IF ret < 0
       THEN Return(ToU32(ret)) /\ UNCHANGED <<log, hw, env>>
       ELSE \E ok \in BOOLEAN :
            /\ BusWrite(reg, val, cmd, ok)
            /\ IF ~ok THEN Return(ToU32(BusErr))
               ELSE IF wait THEN CallDone(next) /\ ret' = ret
               ELSE Goto(next) /\ ret' = ret
    /\ UNCHANGED <<rt5670_dsp_fw, dsp_sw, other, cur, prev, fwreads>>

\* ret = snd_soc_write(codec, RT5670_DSP_CTRL2, reg);
dsp_read_addr   == ReadWrite("l115", DSP_CTRL2, Top.a, NoCmd, "l128", FALSE)
\* ret = snd_soc_write(codec, RT5670_DSP_CTRL1, dsp_val); ret = rt5670_dsp_done(codec);
dsp_read_cmd_mr == ReadWrite("l128", DSP_CTRL1, 0, CmdMemRead, "l135", TRUE)
\* selects 0x25 where 0x26 is due
dsp_read_hi_as_lo == ReadWrite("l135", DSP_CTRL2, SubRegLo, NoCmd, "l148", FALSE)
\* ret = snd_soc_write(codec, RT5670_DSP_CTRL2, 0x26);
dsp_read_hi     == ReadWrite("l135", DSP_CTRL2, SubRegHi, NoCmd, "l148", FALSE)
\* ret = snd_soc_write(codec, RT5670_DSP_CTRL1, dsp_val); ret = rt5670_dsp_done(codec);
dsp_read_cmd_hi == ReadWrite("l148", DSP_CTRL1, 0, CmdRegRead, "l155", TRUE)
\* selects 0x26 a second time
dsp_read_lo_as_hi == ReadWrite("l155", DSP_CTRL2, SubRegHi, NoCmd, "l169", FALSE)
\* ret = snd_soc_write(codec, RT5670_DSP_CTRL2, 0x25);
dsp_read_lo     == ReadWrite("l155", DSP_CTRL2, SubRegLo, NoCmd, "l169", FALSE)
\* ret = snd_soc_write(codec, RT5670_DSP_CTRL1, dsp_val); ret = rt5670_dsp_done(codec);
dsp_read_cmd_lo == ReadWrite("l169", DSP_CTRL1, 0, CmdRegRead, "l176", TRUE)

\* ret = snd_soc_read(codec, RT5670_DSP_CTRL5); value = ret; return value;
dsp_read_data ==
    /\ At("read", "l176")
    /\ IF ret < 0
       THEN Return(ToU32(ret)) /\ UNCHANGED <<log, env>>
       ELSE \E ok \in BOOLEAN :
            /\ ok \/ env.fail > 0
            /\ env' = IF ok THEN env ELSE [env EXCEPT !.fail = @ - 1]
            /\ log' = Append(log, LogR(DSP_CTRL5, IF ok THEN hw.ctrl5 ELSE BusErr, ok))
            /\ Return(ToU32(IF ok THEN hw.ctrl5 ELSE BusErr))
    /\ UNCHANGED <<rt5670_dsp_fw, dsp_sw, other, cur, prev, hw, fwreads>>

----------------------------------------------------------------------------
(* rt5670_write_fw(codec, fw, pos, tab_num): frame fields a = pos, d = tab_num,
   c = entries handed to rt5670_dsp_write so far *)

\* data[i] of the image; a read outside it yields any byte
ByteAt(data, i) == IF 0 <= i /\ i < Len(data) THEN {data[i + 1]} ELSE OobBytes

Word(b0, b1) == b0 * 256 + b1
EntryBytes(at) == at .. (at + EntrySize - 1)

write_fw_entry ==
    /\ At("write_fw", "loop")
    /\ Top.c < Top.d
    /\ Top.c = 0 \/ ret >= 0
    /\ LET data == FwData(rt5670_dsp_fw)
           at   == Top.a + Top.c * EntrySize
       IN \E b0 \in ByteAt(data, at), b1 \in ByteAt(data, at + 1),
             b2 \in ByteAt(data, at + 2), b3 \in ByteAt(data, at + 3) :
          /\ stack' = <<Frame("write", "l66", Word(b0, b1), Word(b2, b3), 0),
                        [Top EXCEPT !.c = @ + 1]>> \o Tail(stack)
          /\ fwreads' = fwreads \cup EntryBytes(at)
    /\ UNCHANGED <<rt5670_dsp_fw, dsp_sw, other, ret, log, cur, prev, hw, env>>

write_fw_fail ==
    /\ At("write_fw", "loop")
    /\ Top.c > 0 /\ ret < 0
    /\ Return(ret)
    /\ UNCHANGED <<rt5670_dsp_fw, dsp_sw, other, log, cur, prev, hw, env, fwreads>>

write_fw_done ==
    /\ At("write_fw", "loop")
    /\ Top.c >= Top.d
    /\ Top.c = 0 \/ ret >= 0
    /\ Return(0)
    /\ UNCHANGED <<rt5670_dsp_fw, dsp_sw, other, log, cur, prev, hw, env, fwreads>>

----------------------------------------------------------------------------
(* rt5670_dsp_set_mode: frame field a = mode *)

RetInit_positive == EINVAL                              \* the sign of the errno lost
RetInit == -EINVAL                                      \* "ret = -EINVAL"
ModeValid_exclusive(mode, n) == mode < n                \* modes 0..n-1 only
ModeValid(mode, n) == mode <= n                         \* "if (mode <= n)"
TablePos_lo(hi, lo) == lo                               \* the high byte dropped
TablePos(hi, lo) == lo + hi * 256                       \* data[m*3+2] | data[m*3+1] << 8
TableFits_entries(pos, tab_num, size) == ~(pos + tab_num > size)    \* "* 5" left out
TableFits(pos, tab_num, size) == ~(pos + tab_num * EntrySize > size)
SlotByte(mode, k) == mode * DirSlot + k

\* the body up to the call of rt5670_write_fw
set_mode_check ==
    /\ At("set_mode", "l264")
    /\ IF rt5670_dsp_fw = NULL
       THEN Return(RetInit) /\ fwreads' = fwreads
       ELSE LET data == FwData(rt5670_dsp_fw)
                mode == Top.a
            IN \E n \in ByteAt(data, 0) :
                IF ~ModeValid(mode, n)
                THEN Return(RetInit) /\ fwreads' = fwreads \cup {0}
                ELSE \E hi \in ByteAt(data, SlotByte(mode, 1)),
                        lo \in ByteAt(data, SlotByte(mode, 2)),
                        tab_num \in ByteAt(data, SlotByte(mode, 3)) :
                     /\ fwreads' = fwreads \cup {0, SlotByte(mode, 1), SlotByte(mode, 2),
                                                  SlotByte(mode, 3)}
                     /\ IF ~TableFits(TablePos(hi, lo), tab_num, Len(data))
                        THEN Return(-EINVAL)
                        ELSE /\ stack' = <<Frame("write_fw", "loop", TablePos(hi, lo), tab_num, 0),
                                           [Top EXCEPT !.pc = "l276"]>> \o Tail(stack)
                             /\ ret' = ret
    /\ UNCHANGED <<rt5670_dsp_fw, dsp_sw, other, log, cur, prev, hw, env>>

\* the result of rt5670_write_fw dropped
set_mode_ret_zero ==
    /\ At("set_mode", "l276")
    /\ Return(0)
    /\ UNCHANGED <<rt5670_dsp_fw, dsp_sw, other, log, cur, prev, hw, env, fwreads>>

\* ret = rt5670_write_fw(...); return ret;
set_mode_ret ==
    /\ At("set_mode", "l276")
    /\ Return(ret)
    /\ UNCHANGED <<rt5670_dsp_fw, dsp_sw, other, log, cur, prev, hw, env, fwreads>>

----------------------------------------------------------------------------
(* rt5670_dsp_fw_loaded *)

rt5670_dsp_fw_loaded(f) ==
    /\ Idle
    /\ env.loads > 0
    /\ env' = [env EXCEPT !.loads = @ - 1]
    /\ rt5670_dsp_fw' = IF f # NULL THEN f ELSE rt5670_dsp_fw
    /\ UNCHANGED <<stack, ret, log, cur, prev, hw, fwreads, dsp_sw, other>>

----------------------------------------------------------------------------
(* Callers *)

Call(op, a, d, frames) ==
    /\ Idle
    /\ env.calls > 0
    /\ env' = [env EXCEPT !.calls = @ - 1]
    /\ stack' = frames
    /\ cur' = [op |-> op, a |-> a, d |-> d, fw |-> rt5670_dsp_fw, sw |-> dsp_sw]
    /\ prev' = IF cur.op = "write" /\ ret = 0 THEN <<cur.a, cur.d>> ELSE <<>>
    /\ log' = <<>>
    /\ fwreads' = {}
    /\ ret' = 0
    /\ UNCHANGED <<rt5670_dsp_fw, dsp_sw, other, hw>>

CallWrite(addr, data) == Call("write", addr, data, <<Frame("write", "l66", addr, data, 0)>>)

\* rt5670_dsp_read starts with "ret = rt5670_dsp_done(codec);"
CallRead(reg) ==
    Call("read", reg, 0, <<Frame("done", "l38", 0, 0, 0), Frame("read", "l115", reg, 0, 0)>>)

CallSetMode(mode) == Call("set_mode", mode, 0, <<Frame("set_mode", "l264", mode, 0, 0)>>)

----------------------------------------------------------------------------
(* snd_soc_update_bits on the reset and power registers *)

DIG_MISC == "RT5670_DIG_MISC"       \* bit RT5670_RST_DSP
PWR_DIG2 == "RT5670_PWR_DIG2"       \* bit RT5670_PWR_I2S_DSP

LogU(reg, val, ok) == [k |-> "u", reg |-> reg, val |-> val, cmd |-> NoCmd, ok |-> ok]

\* the bit of the register after an update that reached the device
HwUpdate(h, reg, val) ==
    IF reg = DIG_MISC THEN [h EXCEPT !.rst = val]
    ELSE IF reg = PWR_DIG2 THEN [h EXCEPT !.pwr = val]
    ELSE h

\* One snd_soc_update_bits setting the bit to val: it reaches the device (ok)
\* or fails and changes nothing.  No caller looks at its result.
UpdateBits(reg, val, ok) ==
    /\ ok \/ env.fail > 0
    /\ log' = Append(log, LogU(reg, val, ok))
    /\ hw' = IF ok THEN HwUpdate(hw, reg, val) ELSE hw
    /\ env' = IF ok THEN env ELSE [env EXCEPT !.fail = @ - 1]

\* enter a callee and move the caller to pc
CallFrame(f, pc) == stack' = <<f, [Top EXCEPT !.pc = pc]>> \o Tail(stack)

----------------------------------------------------------------------------
(* rt5670_dsp_mode_put: the control stores what it is given *)

rt5670_dsp_mode_put(value) ==
    /\ Idle
    /\ dsp_sw' = value
    /\ UNCHANGED <<rt5670_dsp_fw, other, stack, ret, log, cur, prev, hw, env, fwreads>>

----------------------------------------------------------------------------
(* rt5670_dsp_event: frame field a = event *)

PMU == "SND_SOC_DAPM_POST_PMU"
PMD == "SND_SOC_DAPM_POST_PMD"
PRE_PMU == "SND_SOC_DAPM_PRE_PMU"
Events == {PMU, PMD, PRE_PMU}

CallEvent(event) == Call(event, 0, 0, <<Frame("event", "l292", event, 0, 0)>>)

\* case SND_SOC_DAPM_POST_PMD: rt5670_dsp_write(codec, 0x22f9, 1);
event_pmd_write ==
    /\ At("event", "l292")
    /\ Top.a = PMD
    /\ CallFrame(Frame("write", "l66", PwrDownReg, 1, 0), "l310")
    /\ UNCHANGED <<rt5670_dsp_fw, dsp_sw, other, ret, log, cur, prev, hw, env, fwreads>>

\* case SND_SOC_DAPM_POST_PMU: RT5670_RST_DSP set
event_pmu_rst_high ==
    /\ At("event", "l292")
    /\ Top.a = PMU
    /\ \E ok \in BOOLEAN : UpdateBits(DIG_MISC, 1, ok)
    /\ Goto("l300")
    /\ UNCHANGED <<rt5670_dsp_fw, dsp_sw, other, ret, cur, prev, fwreads>>

\* the reset bit left set
event_pmu_rst_low_skipped ==
    /\ At("event", "l300")
    /\ Goto("l303")
    /\ UNCHANGED <<rt5670_dsp_fw, dsp_sw, other, ret, log, cur, prev, hw, env, fwreads>>

\* RT5670_RST_DSP cleared
event_pmu_rst_low ==
    /\ At("event", "l300")
    /\ \E ok \in BOOLEAN : UpdateBits(DIG_MISC, 0, ok)
    /\ Goto("l303")
    /\ UNCHANGED <<rt5670_dsp_fw, dsp_sw, other, ret, cur, prev, fwreads>>

\* rt5670_dsp_set_mode(codec, rt5670->dsp_sw);
event_pmu_set_mode ==
    /\ At("event", "l303")
    /\ CallFrame(Frame("set_mode", "l264", dsp_sw, 0, 0), "l310")
    /\ UNCHANGED <<rt5670_dsp_fw, dsp_sw, other, ret, log, cur, prev, hw, env, fwreads>>

\* default: return 0;
event_default ==
    /\ At("event", "l292")
    /\ Top.a \notin {PMU, PMD}
    /\ Return(0)
    /\ UNCHANGED <<rt5670_dsp_fw, dsp_sw, other, log, cur, prev, hw, env, fwreads>>

\* the result of the callee handed to the framework
event_ret_callee ==
    /\ At("event", "l310")
    /\ Return(ret)
    /\ UNCHANGED <<rt5670_dsp_fw, dsp_sw, other, log, cur, prev, hw, env, fwreads>>

\* break; return 0;
event_ret ==
    /\ At("event", "l310")
    /\ Return(0)
    /\ UNCHANGED <<rt5670_dsp_fw, dsp_sw, other, log, cur, prev, hw, env, fwreads>>

rt5670_dsp_event ==
    \/ event_pmd_write
    \/ event_pmu_rst_high
    \/ event_pmu_rst_low
    \/ event_pmu_set_mode
    \/ event_default
    \/ event_ret

----------------------------------------------------------------------------
(* rt5670_dsp_probe: frame field a = codec *)

Codec == "codec"

CallProbe(codec) == Call("probe", codec, 0, <<Frame("probe", "l351", codec, 0, 0)>>)

\* if (codec == NULL) return -EINVAL;
probe_null ==
    /\ At("probe", "l351")
    /\ Top.a = NULL
    /\ Return(-EINVAL)
    /\ UNCHANGED <<rt5670_dsp_fw, dsp_sw, other, log, cur, prev, hw, env, fwreads>>

\* RT5670_PWR_I2S_DSP set
probe_pwr_on ==
    /\ At("probe", "l351")
    /\ Top.a # NULL
    /\ \E ok \in BOOLEAN : UpdateBits(PWR_DIG2, 1, ok)
    /\ Goto("l357")
    /\ UNCHANGED <<rt5670_dsp_fw, dsp_sw, other, ret, cur, prev, fwreads>>

probe_rst_high ==
    /\ At("probe", "l357")
    /\ \E ok \in BOOLEAN : UpdateBits(DIG_MISC, 1, ok)
    /\ Goto("l359")
    /\ UNCHANGED <<rt5670_dsp_fw, dsp_sw, other, ret, cur, prev, fwreads>>

probe_rst_low ==
    /\ At("probe", "l359")
    /\ \E ok \in BOOLEAN : UpdateBits(DIG_MISC, 0, ok)
    /\ Goto("l363")
    /\ UNCHANGED <<rt5670_dsp_fw, dsp_sw, other, ret, cur, prev, fwreads>>

\* rt5670_dsp_set_mode(codec, 0);
probe_set_mode ==
    /\ At("probe", "l363")
    /\ CallFrame(Frame("set_mode", "l264", 0, 0, 0), "l366")
    /\ UNCHANGED <<rt5670_dsp_fw, dsp_sw, other, ret, log, cur, prev, hw, env, fwreads>>

\* rt5670_dsp_write(codec, 0x22f9, 1);
probe_write ==
    /\ At("probe", "l366")
    /\ CallFrame(Frame("write", "l66", PwrDownReg, 1, 0), "l368")
    /\ UNCHANGED <<rt5670_dsp_fw, dsp_sw, other, ret, log, cur, prev, hw, env, fwreads>>

\* RT5670_PWR_I2S_DSP cleared
probe_pwr_off ==
    /\ At("probe", "l368")
    /\ \E ok \in BOOLEAN : UpdateBits(PWR_DIG2, 0, ok)
    /\ Goto("l378")
    /\ UNCHANGED <<rt5670_dsp_fw, dsp_sw, other, ret, cur, prev, fwreads>>

\* request_firmware_nowait(..., rt5670_dsp_fw_loaded); return 0;
\* one more delivery to rt5670_dsp_fw_loaded is outstanding
probe_ret ==
    /\ At("probe", "l378")
    /\ env' = [env EXCEPT !.loads = @ + 1]
    /\ Return(0)
    /\ UNCHANGED <<rt5670_dsp_fw, dsp_sw, other, log, cur, prev, hw, fwreads>>

rt5670_dsp_probe ==
    \/ probe_null
    \/ probe_pwr_on
    \/ probe_rst_high
    \/ probe_rst_low
    \/ probe_set_mode
    \/ probe_write
    \/ probe_pwr_off
    \/ probe_ret

----------------------------------------------------------------------------

\* no call made yet
NoCall == [op |-> "none", a |-> 0, d |-> 0, fw |-> NULL, sw |-> 0]
\* a thread that has not called the driver
NoContext == [stack |-> <<>>, ret |-> 0, log |-> <<>>, cur |-> NoCall, prev |-> <<>>,
              fwreads |-> {}]

Init ==
    /\ rt5670_dsp_fw = NULL
    /\ stack = <<>>
    /\ ret = 0
    /\ log = <<>>
    /\ cur = NoCall
    /\ prev = <<>>
    /\ hw = [ctrl2 |-> 0, ctrl3 |-> 0, ctrl5 |-> 0, latch |-> 0, mem |-> [x \in Addrs |-> 0],
             rst |-> 0, pwr |-> 0]
    /\ env = [fail |-> MaxFail, loads |-> MaxLoads, calls |-> MaxCalls, serial |-> TRUE]
    /\ fwreads = {}
    /\ dsp_sw = 0
    /\ other = NoContext

\* the handshake below every caller
Handshake ==
    \/ dsp_done_read
    \/ dsp_done_poll
    \/ dsp_done_busy
    \/ dsp_done_ready
    \/ dsp_write_addr
    \/ dsp_write_data
    \/ dsp_write_cmd
    \/ dsp_write_ret

\* direct callers of rt5670_dsp_write and rt5670_dsp_read
NextHandshake ==
    \/ \E addr \in Addrs, data \in Values : CallWrite(addr, data)
    \/ \E reg \in Addrs : CallRead(reg)
    \/ Handshake
    \/ dsp_read_addr
    \/ dsp_read_cmd_mr
    \/ dsp_read_hi
    \/ dsp_read_cmd_hi
    \/ dsp_read_lo
    \/ dsp_read_cmd_lo
    \/ dsp_read_data

\* firmware delivery and direct callers of rt5670_dsp_set_mode
NextModeTable ==
    \/ \E mode \in ModeArgs : CallSetMode(mode)
    \/ \E f \in FwNames \cup {NULL} : rt5670_dsp_fw_loaded(f)
    \/ Handshake
    \/ write_fw_entry
    \/ write_fw_fail
    \/ write_fw_done
    \/ set_mode_check
    \/ set_mode_ret

\* the delivery of the image and the mode table, below the hooks
ModeTable ==
    \/ \E f \in FwNames \cup {NULL} : rt5670_dsp_fw_loaded(f)
    \/ Handshake
    \/ write_fw_entry
    \/ write_fw_fail
    \/ write_fw_done
    \/ set_mode_check
    \/ set_mode_ret

\* nothing probed yet: no delivery of an image is outstanding
InitLifecycle ==
    /\ rt5670_dsp_fw = NULL
    /\ stack = <<>>
    /\ ret = 0
    /\ log = <<>>
    /\ cur = NoCall
    /\ prev = <<>>
    /\ hw = [ctrl2 |-> 0, ctrl3 |-> 0, ctrl5 |-> 0, latch |-> 0, mem |-> [x \in Addrs |-> 0],
             rst |-> 0, pwr |-> 0]
    /\ env = [fail |-> MaxFail, loads |-> 0, calls |-> MaxCalls, serial |-> TRUE]
    /\ fwreads = {}
    /\ dsp_sw = 0
    /\ other = NoContext

\* the framework: probe, the control, the power hooks
NextLifecycle ==
    \/ \E codec \in {Codec, NULL} : CallProbe(codec)
    \/ \E event \in Events : CallEvent(event)
    \/ \E value \in ModeArgs : rt5670_dsp_mode_put(value)
    \/ rt5670_dsp_probe
    \/ rt5670_dsp_event
    \/ ModeTable

SpecHandshake == Init /\ [][NextHandshake]_vars
SpecModeTable == Init /\ [][NextModeTable]_vars
SpecLifecycle == InitLifecycle /\ [][NextLifecycle]_vars

----------------------------------------------------------------------------
(* Two threads of callers.  rt5670_dsp_write and rt5670_dsp_read take no lock:
   unless the callers serialize their calls, the running thread may be
   preempted between any two statements. *)

\* what a thread keeps while it is not running
Context == [stack |-> stack, ret |-> ret, log |-> log, cur |-> cur, prev |-> prev,
            fwreads |-> fwreads]

\* the other thread runs whether or not the running one is inside a call
Switch_unlocked ==
    /\ other' = Context
    /\ stack' = other.stack
    /\ ret' = other.ret
    /\ log' = other.log
    /\ cur' = other.cur
    /\ prev' = other.prev
    /\ fwreads' = other.fwreads
    /\ UNCHANGED <<rt5670_dsp_fw, dsp_sw, hw, env>>

\* The other thread runs.  Callers that serialize their calls (env.serial) let
\* it run only between calls.
Switch ==
    /\ env.serial => Idle
    /\ Switch_unlocked

InitConcurrent ==
    /\ rt5670_dsp_fw = NULL
    /\ stack = <<>>
    /\ ret = 0
    /\ log = <<>>
    /\ cur = NoCall
    /\ prev = <<>>
    /\ hw = [ctrl2 |-> 0, ctrl3 |-> 0, ctrl5 |-> 0, latch |-> 0, mem |-> [x \in Addrs |-> 0],
             rst |-> 0, pwr |-> 0]
    /\ \E serial \in BOOLEAN :
        env = [fail |-> MaxFail, loads |-> 0, calls |-> MaxCalls, serial |-> serial]
    /\ fwreads = {}
    /\ dsp_sw = 0
    /\ other = NoContext

\* the statements of rt5670_dsp_done, rt5670_dsp_write and rt5670_dsp_read
HandshakeSteps ==
    \/ Handshake
    \/ dsp_read_addr
    \/ dsp_read_cmd_mr
    \/ dsp_read_hi
    \/ dsp_read_cmd_hi
    \/ dsp_read_lo
    \/ dsp_read_cmd_lo
    \/ dsp_read_data

\* the writes and the read the two threads choose from
ConcWrites == {<<PwrDownReg, 1>>, <<OtherReg, 4660>>}
ConcReads == {PwrDownReg}

\* two invocations: each thread calls rt5670_dsp_write or rt5670_dsp_read once
NextConcurrent ==
    \/ \E w \in ConcWrites : cur.op = "none" /\ CallWrite(w[1], w[2])
    \/ \E reg \in ConcReads : cur.op = "none" /\ CallRead(reg)
    \/ HandshakeSteps
    \/ Switch

SpecConcurrent == InitConcurrent /\ [][NextConcurrent]_vars
----------------------------------------------------------------------------
(* Reading the log *)

IsPrefix(s, t) == Len(s) <= Len(t) /\ \A i \in 1..Len(s) : s[i] = t[i]

\* what an entry did, leaving out how the bus answered
Shape(e) == <<e.k, e.reg, IF e.k \in {"w", "u"} THEN e.val ELSE 0, e.cmd>>
Shapes(l) == [i \in 1..Len(l) |-> Shape(l[i])]

ShW(reg, val, cmd) == <<"w", reg, val, cmd>>
ShPoll == <<"poll", DSP_CTRL1, 0, NoCmd>>
ShR(reg) == <<"r", reg, 0, NoCmd>>

WriteShape(addr, data) ==
    <<ShW(DSP_CTRL2, addr, NoCmd), ShW(DSP_CTRL3, data, NoCmd),
      ShW(DSP_CTRL1, 0, CmdMemWrite), ShPoll>>

ReadShape(reg) ==
    <<ShPoll,
      ShW(DSP_CTRL2, reg, NoCmd), ShW(DSP_CTRL1, 0, CmdMemRead), ShPoll,
      ShW(DSP_CTRL2, SubRegHi, NoCmd), ShW(DSP_CTRL1, 0, CmdRegRead), ShPoll,
      ShW(DSP_CTRL2, SubRegLo, NoCmd), ShW(DSP_CTRL1, 0, CmdRegRead), ShPoll,
      ShR(DSP_CTRL5)>>

FailedWrite(e) == e.k = "w" /\ ~e.ok        \* a snd_soc_write that failed
FailedRead(e)  == e.k = "r" /\ ~e.ok        \* the snd_soc_read of the readback register failed
BusyPoll(e)    == e.k = "poll" /\ e.val = 1 \* a poll whose last read had the busy flag set

\* rt5670_dsp_done is about to return (the step that pops its frame)
DoneReturns == At("done", "l39") /\ stack' = Tail(stack)

----------------------------------------------------------------------------
(* Claims about the handshake, under SpecHandshake *)

\* every read of the poll in progress reached the device
PollReadsOk == Len(log) >= 1 /\ log[Len(log)].k = "poll" /\ log[Len(log)].ok

\* C1 (as stated): rt5670_dsp_done returns -EBUSY if and only if the busy flag
\* was set on more than 10 reads of the command/status register, that is
\* on 11 reads (stated for polls none of whose reads failed on the bus).
C1_BusyAfter11Reads ==
    [][(DoneReturns /\ PollReadsOk) => (ret' = -EBUSY <=> Top.a >= PollLimit + 1)]_vars

\* C1 (amended): rt5670_dsp_done returns -EBUSY if and only if the busy flag
\* was set on 12 consecutive reads (the first read and 11 re-reads); after k
\* busy reads, k <= 11, a read with the flag clear makes it return 0.
C1_BusyAfter12Reads ==
    [][DoneReturns =>
        /\ ret' \in {0, -EBUSY}
        /\ ret' = -EBUSY <=> (Top.a = PollLimit + 2 /\ Top.d = 1)
        /\ ret' = 0 <=> (Top.a <= PollLimit + 1 /\ Top.d = 0)]_vars

\* 11 busy reads, then a read with the flag clear: rt5670_dsp_done is at its
\* loop test and will return 0.
C1_Witness == At("done", "l39") /\ PollReadsOk /\ Top.a = PollLimit + 1 /\ Top.d = 0

\* C2: a rt5670_dsp_write writes the address, the data and the command
\* register in this order, each at most once, then polls; a failed write is
\* the last bus operation of the call and its error is what the call returns.
C2_WriteOrder ==
    cur.op = "write" =>
        /\ IsPrefix(Shapes(log), WriteShape(cur.a, cur.d))
        /\ \A i \in 1..(Len(log) - 1) : log[i].ok
        /\ Idle =>
            /\ Len(log) >= 1
            /\ FailedWrite(log[Len(log)]) => ret = BusErr
            /\ ~FailedWrite(log[Len(log)]) =>
                /\ Len(log) = 4
                /\ ret = IF BusyPoll(log[4]) THEN -EBUSY ELSE 0

\* the write of the data register failed: the call is over with that error
C2_Witness ==
    /\ Idle /\ cur.op = "write"
    /\ Len(log) = 2 /\ FailedWrite(log[2])
    /\ ret = BusErr

\* the caller's view of what rt5670_dsp_read returned: a 16-bit register
\* value, as opposed to a negative errno converted to unsigned int
IsRegValue(r) == r.hi = 0
ReadFinished == Idle /\ cur.op = "read"

\* C3: a rt5670_dsp_read that returns a register value has performed exactly:
\* poll; write reg to the address register; write the memory-read command;
\* poll; write 0x26; write the register-read command; poll; write 0x25; write
\* the same register-read command; poll; one read of the readback register,
\* whose value it returns.
C3_ReadSequence ==
    (ReadFinished /\ IsRegValue(ret)) =>
        /\ Shapes(log) = ReadShape(cur.a)
        /\ \A i \in 1..Len(log) : log[i].k # "poll" => log[i].ok
        /\ ret = ToU32(log[Len(log)].val)

\* a read of a register written before returns 0x1234
C3_Witness == ReadFinished /\ IsRegValue(ret) /\ ret.lo = 4660 /\ Len(log) = 11

\* the step of rt5670_dsp_read that failed, if one did: the last bus operation
ReadFailure(l) ==
    Len(l) >= 1 /\ (FailedWrite(l[Len(l)]) \/ BusyPoll(l[Len(l)]) \/ FailedRead(l[Len(l)]))

\* C4: in rt5670_dsp_read the first failed bus write or exhausted poll is the
\* last bus operation of the call; the call returns that error, and what it
\* returns on failure is never a 16-bit register value.
C4_ReadAborts ==
    cur.op = "read" =>
        /\ IsPrefix(Shapes(log), ReadShape(cur.a))
        /\ \A i \in 1..(Len(log) - 1) : ~FailedWrite(log[i]) /\ ~BusyPoll(log[i])
        /\ Idle =>
            /\ Len(log) >= 1
            /\ FailedWrite(log[Len(log)]) => ret = ToU32(BusErr)
            /\ BusyPoll(log[Len(log)]) => ret = ToU32(-EBUSY)
            /\ ReadFailure(log) => ~IsRegValue(ret)
            /\ ~ReadFailure(log) => Len(log) = 11 /\ IsRegValue(ret)

\* the poll after the memory-read command ran out: the read is over with -EBUSY
C4_Witness ==
    /\ ReadFinished
    /\ Len(log) = 4 /\ BusyPoll(log[4])
    /\ ret = ToU32(-EBUSY)

\* C5: a rt5670_dsp_read(A) that follows a successful rt5670_dsp_write(A, V) and
\* succeeds returns V.
C5_RoundTrip ==
    (ReadFinished /\ prev # <<>> /\ IsRegValue(ret)) =>
        (prev[1] = cur.a => ret = ToU32(prev[2]))

\* 0x1234 written to 0x22f9 and read back
C5_Witness ==
    /\ ReadFinished /\ prev = <<PwrDownReg, 4660>> /\ cur.a = PwrDownReg
    /\ ret = ToU32(4660)

----------------------------------------------------------------------------
(* Claims about the mode table, under SpecModeTable *)

\* the directory of an image, read directly
DirCount(data) == data[1]
SlotInImage(data, m) == m >= 0 /\ SlotByte(m, 3) < Len(data)
DirPos(data, m) == data[SlotByte(m, 1) + 1] * 256 + data[SlotByte(m, 2) + 1]
DirNum(data, m) == data[SlotByte(m, 3) + 1]
DirBytes(m) == {0, SlotByte(m, 1), SlotByte(m, 2), SlotByte(m, 3)}
DirFits(data, m) == DirPos(data, m) + DirNum(data, m) * EntrySize <= Len(data)
TableBytes(data, m) == DirPos(data, m) .. (DirPos(data, m) + DirNum(data, m) * EntrySize - 1)

\* the k-th entry (from 0) of mode m's table as (address, data)
TabAddr(data, m, k) ==
    Word(data[DirPos(data, m) + k * EntrySize + 1], data[DirPos(data, m) + k * EntrySize + 2])
TabData(data, m, k) ==
    Word(data[DirPos(data, m) + k * EntrySize + 3], data[DirPos(data, m) + k * EntrySize + 4])

\* the bus operations of replaying the first k entries of mode m's table
RECURSIVE ModeShape(_, _, _)
ModeShape(data, m, k) ==
    IF k = 0 THEN <<>>
    ELSE ModeShape(data, m, k - 1)
            \o WriteShape(TabAddr(data, m, k - 1), TabData(data, m, k - 1))

HandshakeFailed(l) == \E i \in 1..Len(l) : FailedWrite(l[i]) \/ BusyPoll(l[i])
ModeCall == cur.op = "set_mode" /\ cur.fw # NULL
ModeFinished == Idle /\ ModeCall
\* a mode of the directory whose slot lies in the image
ModeInDir(data, m) == m >= 0 /\ m <= DirCount(data) /\ SlotInImage(data, m)

\* C6: the bound on the mode is inclusive: rt5670_dsp_set_mode(n), n the count
\* in byte 0, replays its table and returns 0 when the table fits and no
\* handshake fails; rt5670_dsp_set_mode(n + 1) fails and performs no bus
\* operation.
C6_InclusiveBound ==
    ModeFinished =>
        LET data == FwData(cur.fw) IN
        /\ cur.a = DirCount(data) + 1 =>
            ret = -EINVAL /\ log = <<>> /\ fwreads = {0}
        /\ (/\ cur.a = DirCount(data) /\ ModeInDir(data, cur.a)
            /\ DirFits(data, cur.a) /\ ~HandshakeFailed(log)) =>
            ret = 0 /\ Shapes(log) = ModeShape(data, cur.a, DirNum(data, cur.a))

\* mode 2 of the image with n = 2 applied: two handshakes
C6_Witness ==
    /\ ModeFinished /\ cur.fw = "good" /\ cur.a = 2
    /\ ret = 0 /\ Len(log) = 8

\* C7: when the slot of a valid mode gives pos + tab_num * 5 greater than the
\* length of the image, rt5670_dsp_set_mode fails and performs no bus
\* operation.
C7_CorruptFirmware ==
    ModeCall =>
        LET data == FwData(cur.fw) IN
        (ModeInDir(data, cur.a) /\ ~DirFits(data, cur.a)) =>
            /\ log = <<>>
            /\ fwreads \subseteq DirBytes(cur.a)
            /\ Idle => ret = -EINVAL

\* mode 1 of the 12-byte image, whose table would end at byte 17
C7_Witness ==
    /\ ModeFinished /\ cur.fw = "corrupt" /\ cur.a = 1
    /\ fwreads = DirBytes(1) /\ ret = -EINVAL

\* C8: a rt5670_dsp_set_mode(m) that returns 0 has performed exactly tab_num
\* handshakes, in table order, each with the (address, data) of one 5-byte
\* entry of [pos, pos + 5 * tab_num), and has read no byte of the image
\* outside the directory and that range.
C8_ReplaysTable ==
    ModeFinished =>
        LET data == FwData(cur.fw) IN
        (ModeInDir(data, cur.a) /\ ret = 0) =>
            /\ Shapes(log) = ModeShape(data, cur.a, DirNum(data, cur.a))
            /\ Len(log) = 4 * DirNum(data, cur.a)
            /\ fwreads = DirBytes(cur.a) \cup TableBytes(data, cur.a)

\* mode 0 at offset 10 with 2 entries: two handshakes, from bytes [10..20)
C8_Witness ==
    /\ ModeFinished /\ cur.fw = "good" /\ cur.a = 0 /\ ret = 0
    /\ Len(log) = 8
    /\ log[1].val = PwrDownReg /\ log[2].val = 4660
    /\ log[5].val = OtherReg /\ log[6].val = 1
    /\ fwreads = DirBytes(0) \cup (10..19)

\* the handshakes started, and whether entry i (from 0) has been overwritten
\* by a later handshake of the same call
Started(l) == (Len(l) + 3) \div 4
Overwritten(data, m, i, k) ==
    \E j \in (i + 1)..(k - 1) : TabAddr(data, m, j) = TabAddr(data, m, i)

\* C9: when the handshake of the k-th entry fails, rt5670_dsp_set_mode returns
\* that error, the failure is its last bus operation (no later entry, no
\* compensating write), and the entries before k stay applied in the DSP.
C9_NoRollback ==
    ModeFinished =>
        LET data == FwData(cur.fw)
            k == Started(log)
        IN (ModeInDir(data, cur.a) /\ DirFits(data, cur.a) /\ HandshakeFailed(log)) =>
            /\ FailedWrite(log[Len(log)]) \/ BusyPoll(log[Len(log)])
            /\ \A i \in 1..(Len(log) - 1) : ~FailedWrite(log[i]) /\ ~BusyPoll(log[i])
            /\ ret = IF FailedWrite(log[Len(log)]) THEN BusErr ELSE -EBUSY
            /\ k <= DirNum(data, cur.a)
            /\ IsPrefix(Shapes(log), ModeShape(data, cur.a, k))
            /\ \A i \in 0..(k - 2) :
                ~Overwritten(data, cur.a, i, k) =>
                    hw.mem[TabAddr(data, cur.a, i)] = TabData(data, cur.a, i)

\* mode 0: the first entry applied, the handshake of the second failed
C9_Witness ==
    /\ ModeFinished /\ cur.fw = "good" /\ cur.a = 0
    /\ Started(log) = 2 /\ HandshakeFailed(log) /\ ret < 0
    /\ hw.mem[PwrDownReg] = 4660

\* C10: rt5670_dsp_set_mode called while no image is stored fails, whatever
\* the mode, without a bus operation and without reading an image.
C10_NotReady ==
    (cur.op = "set_mode" /\ cur.fw = NULL) =>
        /\ log = <<>>
        /\ fwreads = {}
        /\ Len(stack) <= 1
        /\ Idle => ret = -EINVAL

\* a call with no image stored has returned -EINVAL
C10_Witness ==
    /\ Idle /\ cur.op = "set_mode" /\ cur.fw = NULL /\ cur.a = 0
    /\ ret = -EINVAL
----------------------------------------------------------------------------
(* The stored image *)

\* C11: the stored image is write-once: once rt5670_dsp_fw holds an image, no
\* step (in particular no later delivery of another buffer) changes it.
C11_WriteOnce ==
    [][rt5670_dsp_fw # NULL => rt5670_dsp_fw' = rt5670_dsp_fw]_vars
----------------------------------------------------------------------------
(* Claims about the hooks, under SpecLifecycle *)

ShU(reg, val) == <<"u", reg, val, NoCmd>>
InCall(fn) == \E i \in 1..Len(stack) : stack[i].fn = fn
\* the entries of the log from the i-th on, and up to the i-th
LogFrom(i) == IF i > Len(log) THEN <<>> ELSE SubSeq(log, i, Len(log))
LogTo(i) == IF i > Len(log) THEN log ELSE SubSeq(log, 1, i)

\* C12: the power-up hook sets the reset bit, then clears it, and only then
\* runs rt5670_dsp_set_mode, with the mode the control stored; it reports
\* success.  With no image stored the two updates are all it does on the bus;
\* with an image and a mode of its directory whose table fits, what follows
\* the two updates is that mode's table (up to a failing handshake).
C12_PowerUp ==
    cur.op = PMU =>
        /\ IsPrefix(Shapes(LogTo(2)), <<ShU(DIG_MISC, 1), ShU(DIG_MISC, 0)>>)
        /\ \A i \in 3..Len(log) : log[i].k \in {"w", "poll"}
        /\ (InCall("set_mode") \/ fwreads # {}) => Len(log) >= 2
        /\ \A i \in 1..Len(stack) : stack[i].fn = "set_mode" => stack[i].a = cur.sw
        /\ Idle =>
            /\ Len(log) >= 2
            /\ ret = 0
            /\ cur.fw = NULL => Len(log) = 2 /\ fwreads = {}
            /\ (cur.fw # NULL /\ ModeInDir(FwData(cur.fw), cur.sw) /\ DirFits(FwData(cur.fw), cur.sw)) =>
                    IF HandshakeFailed(LogFrom(3))
                    THEN IsPrefix(Shapes(LogFrom(3)),
                                  ModeShape(FwData(cur.fw), cur.sw, DirNum(FwData(cur.fw), cur.sw)))
                    ELSE Shapes(LogFrom(3)) =
                            ModeShape(FwData(cur.fw), cur.sw, DirNum(FwData(cur.fw), cur.sw))

\* power-up with no image stored: both updates reached the device, the reset
\* bit is low again, the hook returned 0
C12_Witness ==
    /\ Idle /\ cur.op = PMU /\ cur.fw = NULL
    /\ Len(log) = 2 /\ log[1].ok /\ log[2].ok /\ hw.rst = 0
    /\ ret = 0

\* the bus operations of the last register write started (its address write on)
LastWrite ==
    LET starts == {i \in 1..Len(log) : log[i].k = "w" /\ log[i].reg = DSP_CTRL2}
    IN IF starts = {} THEN <<>>
       ELSE LogFrom(CHOOSE i \in starts : \A j \in starts : j <= i)
\* an update of the reset bit failed on the bus
ResetFailed == \E i \in 1..Len(log) : log[i].k = "u" /\ log[i].reg = DIG_MISC /\ ~log[i].ok
ProbeFinished == Idle /\ cur.op = "probe" /\ cur.a # NULL

\* C13: rt5670_dsp_probe returns 0 exactly when its register sequence (the two
\* updates of the reset bit and the power-down write of 1 to 0x22f9) succeeded
\* and a negative value when it failed; what is delivered to
\* rt5670_dsp_fw_loaded afterwards does not change the result.
C13_ProbeResult ==
    ProbeFinished =>
        /\ (ret = 0) <=> ~(ResetFailed \/ HandshakeFailed(LastWrite))
        /\ (ret < 0) <=> (ResetFailed \/ HandshakeFailed(LastWrite))

----------------------------------------------------------------------------
(* Claims about rt5670_dsp_set_mode and the image, under SpecModeTable *)

\* every byte of the image read by the current call lies in the image
ReadsInImage == cur.fw = NULL \/ fwreads \subseteq 0..(Len(FwData(cur.fw)) - 1)

\* C14: the result of rt5670_dsp_set_mode tells the kinds of failure apart: in
\* particular the value returned when no image is stored (RetInit, see C10) is
\* returned for no call made with an image stored, be its failure a mode
\* above n, a table past the end of the image or a failed handshake.
\* (Calls that read outside the image are the subject of C17 and left out.)
C14_PreciseKinds ==
    (Idle /\ cur.op = "set_mode" /\ ReadsInImage) =>
        ((ret = RetInit) <=> (cur.fw = NULL))

\* C17: whatever the image and the mode, rt5670_dsp_set_mode reads the image
\* only at indexes 0 .. size - 1: byte 0, the three bytes of the mode's
\* directory slot and the bytes of its table.
C17_ReadsInBounds ==
    (cur.op = "set_mode" /\ cur.fw # NULL) => ReadsInImage

----------------------------------------------------------------------------
(* Claims about termination and failed status reads, under SpecHandshake *)

MaxStatusReads == PollLimit + 2     \* the first read and 11 re-reads
\* reads of the status register made so far by the rt5670_dsp_done in progress
StatusReads == Top.c + 1

\* the bounds: a poll makes at most 12 reads and ends with the flag clear or
\* with all 12 reads busy; a write is at most 3 register writes and one poll,
\* a read at most 6 register writes, 4 polls and one readback
C15_Bounded ==
    /\ At("done", "l39") =>
        /\ StatusReads <= MaxStatusReads
        /\ (BusyBit(Top.d) = 1 /\ DoneGiveUp(Top.c)) => StatusReads = MaxStatusReads
    /\ cur.op = "write" => Len(log) <= Len(WriteShape(cur.a, cur.d))
    /\ cur.op = "read" => Len(log) <= Len(ReadShape(cur.a))

\* A measure of the work a call has left.  A rt5670_dsp_done about to make its
\* first read has rank 13, after its k-th read 13 - k; a statement of
\* rt5670_dsp_write or rt5670_dsp_read outranks the poll it starts together
\* with all the statements after it.
DoneRank == MaxStatusReads + 1
WritePcs == <<"l66", "l71", "l79", "l85">>
ReadPcs == <<"l115", "l128", "l135", "l148", "l155", "l169", "l176">>
PcRank(pcs, pc) ==
    LET k == CHOOSE i \in 1..Len(pcs) : pcs[i] = pc
    IN (Len(pcs) - k) * (DoneRank + 1) + 1
FrameRank(f) ==
    CASE f.fn = "done"  -> IF f.pc = "l38" THEN DoneRank ELSE DoneRank - (f.c + 1)
      [] f.fn = "write" -> PcRank(WritePcs, f.pc)
      [] f.fn = "read"  -> PcRank(ReadPcs, f.pc)
      [] OTHER -> 0
RECURSIVE Rank(_)
Rank(st) == IF st = <<>> THEN 0 ELSE FrameRank(Head(st)) + Rank(Tail(st))

\* C15: rt5670_dsp_done always terminates, after at most 12 reads of the
\* status register, with success or -EBUSY, however long the DSP stays busy;
\* so every rt5670_dsp_write and rt5670_dsp_read that started returns, after
\* a bounded number of bus operations: the bounds hold, a call in progress
\* always has a statement to execute, and every statement executed lowers the
\* rank of the stack, a natural number that is 0 only when the call returned.
C15_Terminates ==
    /\ []C15_Bounded
    /\ [](~Idle => (Rank(stack) > 0 /\ ENABLED HandshakeSteps))
    /\ [][HandshakeSteps => (Rank(stack') < Rank(stack) /\ Rank(stack') >= 0)]_vars

\* a write whose poll read the flag busy 12 times has returned -EBUSY
C15_Witness ==
    /\ Idle /\ cur.op = "write" /\ ret = -EBUSY
    /\ Len(log) = 4 /\ BusyPoll(log[4]) /\ log[4].ok

\* a poll one of whose reads of the status register failed on the bus
FailedPoll(e) == e.k = "poll" /\ ~e.ok

\* C16: a read of the status register that fails on the bus ends the call:
\* rt5670_dsp_done returns at once instead of reading again, the enclosing
\* rt5670_dsp_write or rt5670_dsp_read performs no further bus operation, and
\* the call returns the bus error, never the result of taking the failed read
\* for a status (busy or ready).
C16_FailFast ==
    /\ [](cur.op \in {"write", "read"} =>
            \A i \in 1..Len(log) : FailedPoll(log[i]) =>
                /\ i = Len(log)
                /\ Idle => ret = (IF cur.op = "write" THEN BusErr ELSE ToU32(BusErr)))
    /\ [][(At("done", "l39") /\ FailedPoll(log[Len(log)])) => stack' = Tail(stack)]_vars

----------------------------------------------------------------------------
(* More claims about the hooks, under SpecLifecycle *)

\* a register write of the handshake was issued
WroteRegister == \E i \in 1..Len(log) : log[i].k = "w"

\* C18: the control stores whatever it is given, and a stored mode outside
\* 0 .. n is rejected by the rt5670_dsp_set_mode of the next power-up: no byte
\* of the directory is decoded (only the count in byte 0 is read), no register
\* is written, and rt5670_dsp_set_mode returns -EINVAL to the hook.
C18_RejectedAtPowerUp ==
    (cur.op = PMU /\ cur.fw # NULL /\ cur.sw \notin 0..DirCount(FwData(cur.fw))) =>
        /\ fwreads \subseteq {0}
        /\ ~WroteRegister
        /\ ~InCall("write_fw")
        /\ At("event", "l310") => ret = -EINVAL

\* C20: the power-down hook performs one rt5670_dsp_write(0x22f9, 1) and no
\* other bus operation, reads no image, leaves the stored image and the
\* stored mode as they were, and returns 0 whether that write succeeded,
\* failed on the bus or found the DSP busy.
C20_PowerDown ==
    cur.op = PMD =>
        /\ IsPrefix(Shapes(log), WriteShape(PwrDownReg, 1))
        /\ \A i \in 1..Len(stack) : stack[i].fn \in {"event", "write", "done"}
        /\ fwreads = {}
        /\ ~Idle => (rt5670_dsp_fw = cur.fw /\ dsp_sw = cur.sw)
        /\ Idle =>
            /\ ret = 0
            /\ Len(log) >= 1
            /\ Len(log) < Len(WriteShape(PwrDownReg, 1)) => FailedWrite(log[Len(log)])

\* a power-down whose write found the DSP busy 12 times has returned 0
C20_Witness ==
    /\ Idle /\ cur.op = PMD /\ ret = 0
    /\ Len(log) = 4 /\ BusyPoll(log[4])

----------------------------------------------------------------------------
(* Claim about unserialized callers, under SpecConcurrent *)

\* The running call is about to write the command register: what the address
\* and data registers must hold for the command to act on the call's own
\* values.
OwnRegisters ==
    /\ At("write", "l79") => (hw.ctrl2 = Top.a /\ hw.ctrl3 = Top.d)
    /\ At("read", "l128") => hw.ctrl2 = Top.a
    /\ At("read", "l148") => hw.ctrl2 = SubRegHi
    /\ At("read", "l169") => hw.ctrl2 = SubRegLo

\* C19: the handshake takes no lock.  When the callers serialize their calls,
\* the address and data registers hold, at every write of the command
\* register, what the same call wrote to them; a command issued over a value
\* of another call is possible only when calls run unserialized.
C19_SerializedOwnRegisters == env.serial => OwnRegisters

\* unserialized: a rt5670_dsp_write is about to issue its command while the
\* address register holds the address written by the other thread's call,
\* which is still in progress
C19_Witness ==
    /\ ~env.serial
    /\ At("write", "l79")
    /\ other.stack # <<>> /\ other.cur.op = "write"
    /\ hw.ctrl2 # Top.a /\ hw.ctrl2 = other.cur.a
    /\ hw.ctrl3 = Top.d
====
